---- MODULE Spec2Model ----
(***************************************************************************)
(* Model of macro-credit-regimes: the rule-based regime classifier         *)
(* (regimes.py), the feature pipeline (features.py) and the regime/stress  *)
(* analytics (analytics.py).                                               *)
(*                                                                         *)
(* Units.  Rates and credit changes are in 0.01 (so 0.10 is 10), z-scores  *)
(* read by the classifier are in 0.01 (so 1.5 is 150), volatility is in    *)
(* index points.  A float not-a-number is the value NaN, for which every   *)
(* comparison is false, as in IEEE/pandas.                                 *)
(***************************************************************************)
EXTENDS Integers, Sequences, FiniteSets, TLC

VARIABLES
    \* ---- rule_based_regime (regimes.py)
    features,       \* the input feature table: [cols, rows]
    rpc,            \* position inside rule_based_regime
    regime,         \* the label Series being built (NoLabel = still NaN)
    expansion,      \* boolean masks, one entry per date (empty before computed)
    late_cycle,
    pivot,
    crisis,
    crisis_active,  \* regime.eq("Risk-off / crisis") taken at line 131
    \* ---- regime_distribution (analytics.py)
    dist_in,        \* the label Series passed in
    dpc,            \* position inside regime_distribution
    reg,            \* the normalized copy
    counts,         \* value_counts: label -> days, over the labels present
    out,            \* the table being built (sequence of rows)
    total_days,     \* out.attrs["total_days"]
    \* ---- build_features (features.py), run on two raw tables side by side
    macro,          \* the raw table: column name -> sequence of values
    macro_alt,      \* a second raw table, for comparing two runs
    params,         \* [lag_days, days_1m, days_1y, fill_days]
    fpc,            \* position inside build_features
    df,             \* the working table of the run on macro
    df_alt,         \* the working table of the run on macro_alt
    \* ---- stress_window_scorecard (analytics.py)
    sc_in,          \* the arguments: labels, score (or none), windows
    spc,            \* position inside stress_window_scorecard
    sreg,           \* the normalized label Series
    ros,            \* the score Series aligned to sreg, <<>> when not given
    widx,           \* the window the loop is at
    rows,           \* the list of row dicts
    csv_table,      \* the table written to stress_window_scorecard.csv
    sc_out,         \* the table returned
    \* ---- rule_based_regime called on two feature tables
    features_a,     \* the rows of the first table (all eight columns)
    features_b,     \* the rows of the second table
    ppc,            \* "idle", "start", "first", "returned"
    regime_a,       \* the labels returned for features_a
    regime_b,       \* the labels returned for features_b
    \* ---- the analytics functions and the objects passed to them
    call,           \* which analytics function is running
    heap,           \* the objects alive: object id -> value
    before,         \* the argument objects' values when the call began
    locals,         \* the function's local names: name -> object id (0 unbound)
    apc,            \* position inside the analytics function
    \* ---- _read_csv_with_retries (data.py)
    q_in,           \* [retries, backoff_seconds]
    attempt,        \* the loop variable
    log,            \* the outcome of each urlopen / read_csv so far
    slept,          \* the arguments of the time.sleep calls so far
    qpc,            \* position inside _read_csv_with_retries
    \* ---- load_macro_series (data.py)
    l_in,           \* [series_map, allow_partial, loads]
    lidx,           \* position of the loop in series_map
    fetched,        \* the FRED codes passed to _fred_series so far
    data,           \* the column names loaded so far, in order
    failures,       \* the FRED codes that failed
    lpc,            \* position inside load_macro_series
    lout            \* the columns of the returned table

rvars == <<features, rpc, regime, expansion, late_cycle, pivot, crisis, crisis_active>>
dvars == <<dist_in, dpc, reg, counts, out, total_days>>
fvars == <<macro, macro_alt, params, fpc, df, df_alt>>
svars == <<sc_in, spc, sreg, ros, widx, rows, csv_table, sc_out>>
pvars == <<features_a, features_b, ppc, regime_a, regime_b>>
avars == <<call, heap, before, locals, apc>>
qvars == <<q_in, attempt, log, slept, qpc>>
lvars == <<l_in, lidx, fetched, data, failures, lpc, lout>>
vars == <<rvars, dvars, fvars, svars, pvars, avars, qvars, lvars>>

\* ------------------------------------------------------------------ bounds
MaxDays == 3        \* longest multi-day feature table
MaxLabels == 3      \* longest label series given to the analytics
MaxLen == 4         \* number of dates of a raw table
MaxObs == 3         \* longest label series given to the scorecard
MaxRows == 2        \* dates of the tables passed to the analytics functions
MaxRetries == 3     \* largest `retries` given to _read_csv_with_retries
MaxSeries == 3      \* most series in a series_map

\* ------------------------------------------------------------------ values
NaN == -1000000
NoLabel == "nan"

IsNaN(x) == x = NaN
Lt(x, c) == ~IsNaN(x) /\ ~IsNaN(c) /\ x < c
Gt(x, c) == ~IsNaN(x) /\ ~IsNaN(c) /\ x > c
Le(x, c) == ~IsNaN(x) /\ ~IsNaN(c) /\ x <= c
Ge(x, c) == ~IsNaN(x) /\ ~IsNaN(c) /\ x >= c
Abs(x) == IF IsNaN(x) THEN NaN ELSE IF x < 0 THEN -x ELSE x

RECURSIVE SumOver(_, _), SumSqOver(_, _)
SumOver(x, S) ==
    IF S = {} THEN 0
    ELSE LET j == CHOOSE k \in S : TRUE IN x[j] + SumOver(x, S \ {j})
SumSqOver(x, S) ==
    IF S = {} THEN 0
    ELSE LET j == CHOOSE k \in S : TRUE IN x[j] * x[j] + SumSqOver(x, S \ {j})

RiskOff == "Risk-off / crisis"
PolicyPivot == "Policy pivot"
LateCycle == "Late-cycle"
RiskOn == "Risk-on / expansion"
Transition == "Transition"

REGIME_ORDER == <<RiskOff, PolicyPivot, LateCycle, RiskOn, Transition>>
RegimeLabels == {REGIME_ORDER[i] : i \in 1..Len(REGIME_ORDER)}

\* ------------------------------------------------------- classifier set-up
rate_move == 10
credit_widen == 10
credit_stable == 5
vix_low == 15
vix_elevated == 20
vix_spike == 5

required == {"ust_2y_chg_1m", "ust_10y_chg_1m", "curve_10y2y",
             "credit_chg_1m", "vix_level", "vix_chg_1m"}
OptionalCols == {"credit_z_1y", "risk_off_score"}
AllCols == required \cup OptionalCols

Row(u2, u10, cv, cc, cz, vl, vc, sc) ==
    [ust_2y_chg_1m |-> u2, ust_10y_chg_1m |-> u10, curve_10y2y |-> cv,
     credit_chg_1m |-> cc, credit_z_1y |-> cz, vix_level |-> vl,
     vix_chg_1m |-> vc, risk_off_score |-> sc]

\* Days used in multi-day tables: one per situation of the state machine.
rCalm      == Row(  0, 10,  50,   0,   0, 15, 0, 0)  \* nothing true, exit met
rExpansion == Row( 15, 15,  50,  -8,  50,  8, 0, 0)  \* expansion, exit not met
rLate      == Row(  0, 10, -20,   0,   0,  8, 0, 1)  \* late-cycle, exit met
rPivot     == Row(-15,  0,  50,   0,   0, 20, 5, 0)  \* pivot, exit not met
rCrisis    == Row(  0,  0,  50,  14, 150, 20, 7, 2)  \* crisis predicate
rScore3    == Row(  0, 10, -20,  10,   0, 15, 7, 3)  \* score 3 only, exit met
rHold      == Row(  0, 10,  50,   0,  50, 15, 0, 1)  \* nothing true, exit not met
rNaN       == Row(NaN, NaN, NaN, NaN, NaN, NaN, NaN, NaN)

DayRows == {rCalm, rExpansion, rLate, rPivot, rCrisis, rScore3, rHold, rNaN}

\* One value per threshold region of every column, boundaries included.
GridRows ==
    {Row(u2, u10, cv, cc, cz, vl, vc, sc) :
        u2 \in {-15, 10, 15}, u10 \in {0, 10, 15}, cv \in {-20, 0},
        cc \in {-8, 0, 10, 14}, cz \in {0, 50, 150, 180},
        vl \in {8, 15, 20}, vc \in {5, 7}, sc \in {1, 2, 3}}

\* A table whose columns are `cols`: what an absent column would hold is not
\* part of the table.
MaskRow(r, cols) == [c \in AllCols |-> IF c \in cols THEN r[c] ELSE NaN]
\* The kinds of index a table can come with; rule_based_regime reads none
\* of the index's properties.
DatetimeIndex == "DatetimeIndex"
DuplicateDates == "DatetimeIndex with duplicate dates"
RangeIndex == "RangeIndex"
Table(rs, cols) ==
    [cols |-> cols, rows |-> [i \in 1..Len(rs) |-> MaskRow(rs[i], cols)],
     index |-> DatetimeIndex]
\* The same table under another index.
WithIndex(tbl, kind) == [tbl EXCEPT !.index = kind]

SeqsUpTo(S, n) == UNION {[1..k -> S] : k \in 1..n}

\* Column sets: everything, one column missing, or one required and one
\* optional column missing.
ColumnSets ==
    {AllCols} \cup {AllCols \ {c} : c \in AllCols}
              \cup {AllCols \ {c, o} : c \in required, o \in OptionalCols}

Days == 1..Len(features.rows)
Col(c, t) == features.rows[t][c]

\* ------------------------------------------------- rule_based_regime steps
\* Primitive signals (lines 51-73).  rates_falling (lines 55-58) is computed
\* by the source and read by no predicate; it has no effect on the labels.
rates_rising(t) ==
    Gt(Col("ust_2y_chg_1m", t), rate_move) /\ Gt(Col("ust_10y_chg_1m", t), rate_move)
curve_inverted(t) == Lt(Col("curve_10y2y", t), 0)
curve_flat_or_down(t) == Le(Col("ust_10y_chg_1m", t), 0)
credit_widening(t) ==
    Gt(Col("credit_chg_1m", t), credit_widen) /\ Gt(Col("credit_z_1y", t), 100)
credit_tightening(t) == Lt(Col("credit_chg_1m", t), -credit_stable)
credit_stable_cond(t) == Lt(Abs(Col("credit_chg_1m", t)), credit_stable)
vix_low_cond(t) == Lt(Col("vix_level", t), vix_low)
vix_elev(t) == Ge(Col("vix_level", t), vix_elevated)
vix_spiking(t) == Gt(Col("vix_chg_1m", t), vix_spike)

\* Regime definitions (lines 81-111).
crisis_pred(t) ==
    /\ credit_widening(t)
    /\ vix_spiking(t)
    /\ (Ge(Col("risk_off_score", t), 2) \/ Gt(Col("credit_z_1y", t), 150))
pivot_pred(t) ==
    /\ Lt(Col("ust_2y_chg_1m", t), -rate_move)
    /\ curve_flat_or_down(t)
    /\ vix_elev(t)
    /\ ~vix_spiking(t)
late_cycle_pred(t) == curve_inverted(t) /\ credit_stable_cond(t) /\ vix_low_cond(t)
expansion_pred(t) == rates_rising(t) /\ credit_tightening(t) /\ vix_low_cond(t)

\* regime.loc[mask] = label
SetWhere(r, mask, label) == [t \in DOMAIN r |-> IF mask[t] THEN label ELSE r[t]]

\* Lines 117-120: four overwrites, weakest first.
AssignLabelsPivotSlip(r) ==
    SetWhere(SetWhere(SetWhere(SetWhere(r, expansion, RiskOn),
                               late_cycle, LateCycle),
                      pivot, LateCycle),
             crisis, RiskOff)
AssignLabels(r) ==
    SetWhere(SetWhere(SetWhere(SetWhere(r, expansion, RiskOn),
                               late_cycle, LateCycle),
                      pivot, PolicyPivot),
             crisis, RiskOff)

\* Lines 127-128: the score override, guarded by the column's presence.
OverrideMaskAbove3(t) ==
    "risk_off_score" \in features.cols /\ Gt(Col("risk_off_score", t), 3)
OverrideMask(t) ==
    "risk_off_score" \in features.cols /\ Ge(Col("risk_off_score", t), 3)

\* Line 132.
exit_crisis(t) == Lt(Col("credit_z_1y", t), 50) /\ Lt(Col("vix_level", t), vix_elevated)

\* The mask with shift(1, fill_value=True): the first date counts as
\* following a crisis day.
PersistMaskOfFillTrue(active, t) == (t = 1 \/ active[t - 1]) /\ ~exit_crisis(t)
\* Line 133: crisis_active.shift(1, fill_value=False) & ~exit_crisis, for a
\* flag Series `active`.
PersistMaskOf(active, t) == t > 1 /\ active[t - 1] /\ ~exit_crisis(t)
\* The mask the source used: the flag is the one taken at line 131.
PersistMask(t) == PersistMaskOf(crisis_active, t)

\* regime.ffill().fillna("Transition"): an unlabeled day takes the label of
\* the last labeled day before it.
FillLabelForward(r) ==
    [t \in DOMAIN r |->
        IF r[t] # NoLabel THEN r[t]
        ELSE LET S == {j \in 1..(t - 1) : r[j] # NoLabel}
             IN  IF S = {} THEN Transition
                 ELSE r[CHOOSE j \in S : \A k \in S : k <= j]]
\* regime.fillna("Transition")
FillLabel(r) == [t \in DOMAIN r |-> IF r[t] = NoLabel THEN Transition ELSE r[t]]

RegimeIdle ==
    /\ features = Table(<<>>, {})
    /\ rpc = "idle"
    /\ regime = <<>>
    /\ expansion = <<>> /\ late_cycle = <<>> /\ pivot = <<>> /\ crisis = <<>>
    /\ crisis_active = <<>>

\* Lines 15-18: the input and the all-NaN label Series.
RegimeStart ==
    /\ \/ \E rs \in SeqsUpTo(DayRows, MaxDays), cols \in ColumnSets :
              features = Table(rs, cols)
       \/ \E r \in GridRows : features = Table(<<r>>, AllCols)
       \/ \E rs \in SeqsUpTo(DayRows, MaxDays) :
              \/ features = WithIndex(Table(rs, AllCols), RangeIndex)
              \/ Len(rs) >= 2 /\ features = WithIndex(Table(rs, AllCols), DuplicateDates)
    /\ rpc = "start"
    /\ regime = [t \in Days |-> NoLabel]
    /\ expansion = <<>> /\ late_cycle = <<>> /\ pivot = <<>> /\ crisis = <<>>
    /\ crisis_active = <<>>

\* Line 43: all(c in df.columns for c in required).
RequiredPresentAny(cols) == \E c \in required : c \in cols
RequiredPresent(cols) == \A c \in required : c \in cols

\* Lines 43-44: a missing required column returns all-Transition at once.
RequiredMissing ==
    /\ rpc = "start"
    /\ ~RequiredPresent(features.cols)
    /\ regime' = FillLabel(regime)
    /\ rpc' = "returned"
    /\ UNCHANGED <<features, expansion, late_cycle, pivot, crisis, crisis_active>>
    /\ UNCHANGED <<dvars, fvars, svars, pvars, avars, qvars, lvars>>

\* Lines 51-111 with the optional columns present.
ComputeSignals ==
    /\ rpc = "start"
    /\ RequiredPresent(features.cols)
    /\ OptionalCols \subseteq features.cols
    /\ expansion' = [t \in Days |-> expansion_pred(t)]
    /\ late_cycle' = [t \in Days |-> late_cycle_pred(t)]
    /\ pivot' = [t \in Days |-> pivot_pred(t)]
    /\ crisis' = [t \in Days |-> crisis_pred(t)]
    /\ rpc' = "assign"
    /\ UNCHANGED <<features, regime, crisis_active>>
    /\ UNCHANGED <<dvars, fvars, svars, pvars, avars, qvars, lvars>>

\* Lines 66 and 84: df["credit_z_1y"] and df["risk_off_score"] are read
\* unguarded; an absent column raises KeyError out of the function.
SignalsKeyError ==
    /\ rpc = "start"
    /\ RequiredPresent(features.cols)
    /\ ~(OptionalCols \subseteq features.cols)
    /\ rpc' = "raised"
    /\ UNCHANGED <<features, regime, expansion, late_cycle, pivot, crisis, crisis_active>>
    /\ UNCHANGED <<dvars, fvars, svars, pvars, avars, qvars, lvars>>

\* Lines 117-120.
Assign ==
    /\ rpc = "assign"
    /\ regime' = AssignLabels(regime)
    /\ rpc' = "override"
    /\ UNCHANGED <<features, expansion, late_cycle, pivot, crisis, crisis_active>>
    /\ UNCHANGED <<dvars, fvars, svars, pvars, avars, qvars, lvars>>

\* Lines 127-128.
Override ==
    /\ rpc = "override"
    /\ regime' = SetWhere(regime, [t \in Days |-> OverrideMask(t)], RiskOff)
    /\ rpc' = "persist"
    /\ UNCHANGED <<features, expansion, late_cycle, pivot, crisis, crisis_active>>
    /\ UNCHANGED <<dvars, fvars, svars, pvars, avars, qvars, lvars>>

\* The flag taken from the crisis predicate alone, as if line 131 came before
\* the override of lines 127-128.
CrisisActivePreOverride(r) == [t \in DOMAIN r |-> r[t] = RiskOff /\ crisis[t]]
\* Line 131: regime.eq("Risk-off / crisis").
CrisisActive(r) == [t \in DOMAIN r |-> r[t] = RiskOff]

\* Lines 131-133: one vectorized assignment over the whole Series.
Persist ==
    /\ rpc = "persist"
    /\ crisis_active' = CrisisActive(regime)
    /\ regime' = SetWhere(regime, [t \in Days |-> PersistMaskOf(crisis_active', t)],
                          RiskOff)
    /\ rpc' = "fill"
    /\ UNCHANGED <<features, expansion, late_cycle, pivot, crisis>>
    /\ UNCHANGED <<dvars, fvars, svars, pvars, avars, qvars, lvars>>

\* Lines 139-146.
FinalFill ==
    /\ rpc = "fill"
    /\ regime' = FillLabel(regime)
    /\ rpc' = "returned"
    /\ UNCHANGED <<features, expansion, late_cycle, pivot, crisis, crisis_active>>
    /\ UNCHANGED <<dvars, fvars, svars, pvars, avars, qvars, lvars>>


NextRegime ==
    \/ RequiredMissing
    \/ ComputeSignals
    \/ SignalsKeyError
    \/ Assign
    \/ Override
    \/ Persist
    \/ FinalFill

\* ------------------------------------- rule_based_regime on two tables
\* The function of lines 15-145 on the rows of a table that has all eight
\* columns, day by day: the predicates of lines 81-111 on one row, ...
RowCrisis(r) ==
    /\ Gt(r.credit_chg_1m, credit_widen) /\ Gt(r.credit_z_1y, 100)
    /\ Gt(r.vix_chg_1m, vix_spike)
    /\ (Ge(r.risk_off_score, 2) \/ Gt(r.credit_z_1y, 150))
RowPivot(r) ==
    /\ Lt(r.ust_2y_chg_1m, -rate_move)
    /\ Le(r.ust_10y_chg_1m, 0)
    /\ Ge(r.vix_level, vix_elevated)
    /\ ~Gt(r.vix_chg_1m, vix_spike)
RowLate(r) ==
    /\ Lt(r.curve_10y2y, 0)
    /\ Lt(Abs(r.credit_chg_1m), credit_stable)
    /\ Lt(r.vix_level, vix_low)
RowExpansion(r) ==
    /\ Gt(r.ust_2y_chg_1m, rate_move) /\ Gt(r.ust_10y_chg_1m, rate_move)
    /\ Lt(r.credit_chg_1m, -credit_stable)
    /\ Lt(r.vix_level, vix_low)
\* ... the label of the row after lines 117-128 (the last overwrite wins), ...
RowLabel(r) ==
    IF Ge(r.risk_off_score, 3) \/ RowCrisis(r) THEN RiskOff
    ELSE IF RowPivot(r) THEN PolicyPivot
    ELSE IF RowLate(r) THEN LateCycle
    ELSE IF RowExpansion(r) THEN RiskOn
    ELSE NoLabel
RowExit(r) == Lt(r.credit_z_1y, 50) /\ Lt(r.vix_level, vix_elevated)
\* ... and lines 131-139: persistence from the previous row's label as it
\* stood at line 131, then the fill.
LabelsOf(rs) ==
    [t \in DOMAIN rs |->
        IF t > 1 /\ RowLabel(rs[t - 1]) = RiskOff /\ ~RowExit(rs[t]) THEN RiskOff
        ELSE IF RowLabel(rs[t]) = NoLabel THEN Transition
        ELSE RowLabel(rs[t])]

\* The days the two tables are built from.
PairRows == {rCalm, rPivot, rCrisis, rHold}

PairIdle ==
    /\ features_a = <<>> /\ features_b = <<>>
    /\ ppc = "idle"
    /\ regime_a = <<>> /\ regime_b = <<>>

PairStart ==
    /\ features_a \in SeqsUpTo(PairRows, MaxDays)
    /\ features_b \in SeqsUpTo(PairRows, MaxDays)
    /\ ppc = "start"
    /\ regime_a = <<>> /\ regime_b = <<>>

\* rule_based_regime(features_a)
ClassifyFirst ==
    /\ ppc = "start"
    /\ regime_a' = LabelsOf(features_a)
    /\ ppc' = "first"
    /\ UNCHANGED <<features_a, features_b, regime_b>>
    /\ UNCHANGED <<rvars, dvars, fvars, svars, avars, qvars, lvars>>

\* rule_based_regime(features_b)
ClassifySecond ==
    /\ ppc = "first"
    /\ regime_b' = LabelsOf(features_b)
    /\ ppc' = "returned"
    /\ UNCHANGED <<features_a, features_b, regime_a>>
    /\ UNCHANGED <<rvars, dvars, fvars, svars, avars, qvars, lvars>>

NextPair ==
    \/ ClassifyFirst
    \/ ClassifySecond

\* --------------------------------------------------- regime_distribution
NoneLabel == "None"
Unknown == "Unknown"
LabelInputs == RegimeLabels \cup {NoLabel, NoneLabel, Unknown}

RECURSIVE SumDays(_)
SumDays(rs) == IF rs = <<>> THEN 0 ELSE rs[1].Days + SumDays(Tail(rs))

\* Lines 38-40: None becomes NaN, NaN becomes "Transition".
NormalizeDropMissing(labels) ==
    SelectSeq(labels, LAMBDA l : l \notin {NoLabel, NoneLabel})
NormalizeLabels(labels) ==
    [i \in DOMAIN labels |->
        IF labels[i] \in {NoLabel, NoneLabel} THEN Transition ELSE labels[i]]

\* Line 83: reg.value_counts(dropna=False), a count for each value present.
ValueCounts(s) ==
    [l \in {s[i] : i \in DOMAIN s} |-> Cardinality({i \in DOMAIN s : s[i] = l})]

\* Line 85: round(x, 2) of days / total * 100, in 0.01 percent, half to even.
SharePct(days, total) ==
    LET n == days * 10000
        q == n \div total
        r2 == 2 * (n % total)
    IN  IF r2 > total \/ (r2 = total /\ q % 2 = 1) THEN q + 1 ELSE q

\* Lines 44-48: the categories are the labels of REGIME_ORDER that occur in
\* idx, in that order; any other index value has no category (NaN).
OrderedCats(idx) == SelectSeq(REGIME_ORDER, LAMBDA r : r \in idx)

\* Lines 84-88: the rows, sorted by category, the uncategorized last.
DistRow(label, cnt, total) ==
    [Regime |-> label, Days |-> cnt[label], Share |-> SharePct(cnt[label], total)]
SortedRows(cnt) ==
    LET idx == DOMAIN cnt
        total == SumOver(cnt, idx)
        cats == OrderedCats(idx)
        known == [i \in 1..Len(cats) |-> DistRow(cats[i], cnt, total)]
        rest == IF Unknown \in idx
                THEN <<[DistRow(Unknown, cnt, total) EXCEPT !.Regime = NoLabel]>>
                ELSE <<>>
    IN  known \o rest

DistIdle ==
    /\ dist_in = [datetime |-> TRUE, include_total |-> TRUE, labels |-> <<>>]
    /\ dpc = "idle"
    /\ reg = <<>>
    /\ counts = <<>>
    /\ out = <<>>
    /\ total_days = NaN

DistStart ==
    /\ \E dt \in BOOLEAN, it \in BOOLEAN,
          labels \in {<<>>} \cup SeqsUpTo(LabelInputs, MaxLabels) :
          dist_in = [datetime |-> dt, include_total |-> it, labels |-> labels]
    /\ dpc = "start"
    /\ reg = <<>>
    /\ counts = <<>>
    /\ out = <<>>
    /\ total_days = NaN

\* Lines 34-35: the index must be a DatetimeIndex.
NormalizeRaises ==
    /\ dpc = "start"
    /\ ~dist_in.datetime
    /\ dpc' = "raised"
    /\ UNCHANGED <<dist_in, reg, counts, out, total_days>>
    /\ UNCHANGED <<rvars, fvars, svars, pvars, avars, qvars, lvars>>

\* Line 81.
Normalize ==
    /\ dpc = "start"
    /\ dist_in.datetime
    /\ reg' = NormalizeLabels(dist_in.labels)
    /\ dpc' = "count"
    /\ UNCHANGED <<dist_in, counts, out, total_days>>
    /\ UNCHANGED <<rvars, fvars, svars, pvars, avars, qvars, lvars>>

\* Line 83.
Count ==
    /\ dpc = "count"
    /\ counts' = ValueCounts(reg)
    /\ dpc' = "order"
    /\ UNCHANGED <<dist_in, reg, out, total_days>>
    /\ UNCHANGED <<rvars, fvars, svars, pvars, avars, qvars, lvars>>

\* Lines 84-88.
Order ==
    /\ dpc = "order"
    /\ out' = SortedRows(counts)
    /\ dpc' = "total"
    /\ UNCHANGED <<dist_in, reg, counts, total_days>>
    /\ UNCHANGED <<rvars, fvars, svars, pvars, avars, qvars, lvars>>

\* Lines 90-97.
Total ==
    /\ dpc = "total"
    /\ total_days' = IF dist_in.include_total THEN SumDays(out) ELSE NaN
    /\ dpc' = "returned"
    /\ UNCHANGED <<dist_in, reg, counts, out>>
    /\ UNCHANGED <<rvars, fvars, svars, pvars, avars, qvars, lvars>>

NextDist ==
    \/ NormalizeRaises
    \/ Normalize
    \/ Count
    \/ Order
    \/ Total

\* -------------------------------------------------------- build_features
RawCols == {"ust_10y", "ust_2y", "baa_10y_spread", "vix"}
Dates == 1..MaxLen

\* A rolling z-score is kept exact as (d, n, v): over the n non-missing values
\* of the window, with sum S and sum of squares Q, d = n*x - S and
\* v = n*Q - S*S, so that z = (d / n) / sqrt(v / (n * (n - 1))).
ZNaN == [d |-> 0, n |-> 0, v |-> 0]

\* Raw series used to build the input tables.
ZigZag == [i \in Dates |-> 2 * (i % 2)]
Gappy == [i \in Dates |-> IF i \in {2, 3} THEN NaN ELSE 5 - i]
Flat == [i \in Dates |-> 1]
\* The series each raw column is drawn from.
RawSeries(col) ==
    IF col = "baa_10y_spread" THEN {ZigZag, Gappy, Flat}
    ELSE IF col = "ust_2y" THEN {Flat, Gappy}
    ELSE {ZigZag, Gappy}
RawTables ==
    UNION {{m \in [cols -> {ZigZag, Gappy, Flat}] :
                \A c \in cols : m[c] \in RawSeries(c)} : cols \in SUBSET RawCols}

\* x.shift(k), k >= 0.
Shift(x, k) == [i \in DOMAIN x |-> IF i - k >= 1 THEN x[i - k] ELSE NaN]

\* x.ffill(limit=limit): a missing value takes the last value before it when
\* that value is at most `limit` positions back.
LastValid(x, i) ==
    LET S == {j \in 1..(i - 1) : ~IsNaN(x[j])}
    IN  IF S = {} THEN 0 ELSE CHOOSE j \in S : \A k \in S : k <= j
Ffill(x, limit) ==
    [i \in DOMAIN x |->
        IF ~IsNaN(x[i]) THEN x[i]
        ELSE LET j == LastValid(x, i)
             IN  IF j > 0 /\ i - j <= limit THEN x[j] ELSE NaN]

\* a - b on floats.
Minus(a, b) == IF IsNaN(a) \/ IsNaN(b) THEN NaN ELSE a - b
\* x - x.shift(k)
Change(x, k) == [i \in DOMAIN x |-> Minus(x[i], Shift(x, k)[i])]

\* rolling(window, min_periods=1) in place of line 19.
MinPeriodsOne(days_1y) == 1
\* Line 19: int(days_1y * 0.8).
MinPeriods(days_1y) == (days_1y * 8) \div 10

\* Lines 12-16: rolling mean and std (ddof = 1) over the trailing window,
\* missing below min_periods observations, a zero std replaced by NaN.
zscore_rolling(x, window, min_periods) ==
    [i \in DOMAIN x |->
        LET W == {j \in DOMAIN x : j > i - window /\ j <= i /\ ~IsNaN(x[j])}
            n == Cardinality(W)
            S == SumOver(x, W)
            Q == SumSqOver(x, W)
            v == n * Q - S * S
        IN  IF IsNaN(x[i]) \/ n < min_periods \/ n < 2 \/ v = 0
            THEN ZNaN
            ELSE [d |-> n * x[i] - S, n |-> n, v |-> v]]

WithCol(d, name, x) ==
    [c \in DOMAIN d \cup {name} |-> IF c = name THEN x ELSE d[c]]

\* Line 24.
LagStepNone(d, p) == d
LagStep(d, p) == [c \in DOMAIN d |-> Shift(d[c], p.lag_days)]

\* df.ffill() without the limit of line 26.
FillStepNoLimit(d, p) == [c \in DOMAIN d |-> Ffill(d[c], MaxLen)]
\* Line 26.
FillStep(d, p) == [c \in DOMAIN d |-> Ffill(d[c], p.fill_days)]

\* Lines 31-33.
CurveStep(d, p) ==
    IF {"ust_10y", "ust_2y"} \subseteq DOMAIN d
    THEN LET curve == [i \in Dates |-> Minus(d["ust_10y"][i], d["ust_2y"][i])]
         IN  WithCol(WithCol(d, "curve_10y2y", curve), "curve_z_1y",
                     zscore_rolling(curve, p.days_1y, MinPeriods(p.days_1y)))
    ELSE d

\* Lines 38-40.
ChangeCol(d, col, p) ==
    IF col \in DOMAIN d
    THEN WithCol(d, col \o "_chg_1m", Change(d[col], p.days_1m))
    ELSE d
MomentumStep(d, p) == ChangeCol(ChangeCol(d, "ust_10y", p), "ust_2y", p)

\* Lines 45-48 and 53-56: level, 1m change and 1y z-score of one raw column.
LevelChangeZ(d, raw, prefix, p) ==
    IF raw \in DOMAIN d
    THEN WithCol(WithCol(WithCol(d, prefix \o "_level", d[raw]),
                         prefix \o "_chg_1m", Change(d[raw], p.days_1m)),
                 prefix \o "_z_1y",
                 zscore_rolling(d[raw], p.days_1y, MinPeriods(p.days_1y)))
    ELSE d
CreditStep(d, p) == LevelChangeZ(d, "baa_10y_spread", "credit", p)
\* Lines 53-56 without the guard of line 53: the level column is written,
\* all missing, when the raw column is absent.
VixStepUnguarded(d, p) ==
    IF "vix" \in DOMAIN d THEN LevelChangeZ(d, "vix", "vix", p)
    ELSE WithCol(d, "vix_level", [i \in Dates |-> NaN])
VixStep(d, p) == LevelChangeZ(d, "vix", "vix", p)

\* Lines 61-76: each available signal is (column < 0) or (column > 0) cast
\* to float, so a comparison on NaN counts 0; the row sum needs
\* len(signals) non-missing entries, which the casts always supply.
Signals(d) ==
    {c \in {"curve_10y2y", "credit_chg_1m", "vix_chg_1m"} : c \in DOMAIN d}
SignalOn(d, c, i) ==
    IF c = "curve_10y2y" THEN Lt(d[c][i], 0) ELSE Gt(d[c][i], 0)
ScoreStep(d, p) ==
    IF Signals(d) # {}
    THEN WithCol(d, "risk_off_score",
                 [i \in Dates |-> Cardinality({c \in Signals(d) : SignalOn(d, c, i)})])
    ELSE d

\* macro with the values of column col after position cut replaced by val.
Altered(m, col, cut, val) ==
    [c \in DOMAIN m |->
        IF c = col THEN [i \in Dates |-> IF i > cut THEN val ELSE m[c][i]]
        ELSE m[c]]

\* The short window is half the long one, rounded up.
ParamSets ==
    {p \in [lag_days : {1, 2}, days_1m : {1, 2}, days_1y : {2, 3, 4}, fill_days : {1, 2}] :
        p.days_1m = (p.days_1y + 1) \div 2}

FeatIdle ==
    /\ macro = <<>> /\ macro_alt = <<>>
    /\ params = [lag_days |-> 1, days_1m |-> 1, days_1y |-> 2, fill_days |-> 1]
    /\ fpc = "idle"
    /\ df = <<>> /\ df_alt = <<>>

\* Line 18: df = macro.copy(), for both runs.
FeatStart ==
    /\ macro \in RawTables
    /\ \/ macro_alt = macro
       \/ \E col \in DOMAIN macro, cut \in 0..(MaxLen - 1), val \in {NaN, 9} :
             macro_alt = Altered(macro, col, cut, val)
    /\ params \in ParamSets
    /\ fpc = "lag"
    /\ df = macro /\ df_alt = macro_alt

FeatFrame ==
    UNCHANGED <<macro, macro_alt, params, rvars, dvars, svars, pvars, avars, qvars, lvars>>

Lag ==
    /\ fpc = "lag"
    /\ df' = LagStep(df, params) /\ df_alt' = LagStep(df_alt, params)
    /\ fpc' = "fill"
    /\ FeatFrame

Fill ==
    /\ fpc = "fill"
    /\ df' = FillStep(df, params) /\ df_alt' = FillStep(df_alt, params)
    /\ fpc' = "curve"
    /\ FeatFrame

Curve ==
    /\ fpc = "curve"
    /\ df' = CurveStep(df, params) /\ df_alt' = CurveStep(df_alt, params)
    /\ fpc' = "momentum"
    /\ FeatFrame

Momentum ==
    /\ fpc = "momentum"
    /\ df' = MomentumStep(df, params) /\ df_alt' = MomentumStep(df_alt, params)
    /\ fpc' = "credit"
    /\ FeatFrame

Credit ==
    /\ fpc = "credit"
    /\ df' = CreditStep(df, params) /\ df_alt' = CreditStep(df_alt, params)
    /\ fpc' = "vix"
    /\ FeatFrame

Vix ==
    /\ fpc = "vix"
    /\ df' = VixStep(df, params) /\ df_alt' = VixStep(df_alt, params)
    /\ fpc' = "score"
    /\ FeatFrame

Score ==
    /\ fpc = "score"
    /\ df' = ScoreStep(df, params) /\ df_alt' = ScoreStep(df_alt, params)
    /\ fpc' = "save"
    /\ FeatFrame

\* Lines 78-82.
ReturnFeatures ==
    /\ fpc = "save"
    /\ fpc' = "returned"
    /\ UNCHANGED <<df, df_alt>>
    /\ FeatFrame

NextFeat ==
    \/ Lag
    \/ Fill
    \/ Curve
    \/ Momentum
    \/ Credit
    \/ Vix
    \/ Score
    \/ ReturnFeatures

\* ------------------------------------------------ stress_window_scorecard
\* Dates are day numbers; the label Series is indexed by the dates 1..n.
NaT == NaN
\* A share k/n is kept exact as (num, den); a NaN share has den = 0.
ShareNaN == [num |-> 0, den |-> 0]
ShareOf(k, n) == [num |-> k, den |-> n]

score_threshold == <<2, 3>>
ThresholdKey(st) == IF st = 2 THEN "risk_off_score>=2_share" ELSE "risk_off_score>=3_share"

\* Days of the label Series: a label with the score of that date.
ObsKinds ==
    {[label |-> RiskOff, score |-> 3], [label |-> RiskOff, score |-> 1],
     [label |-> LateCycle, score |-> 2], [label |-> NoLabel, score |-> NaN]}

\* Windows start and end on a date from the day before the first possible
\* observation to the day after the last, end >= start.
ValidWindows ==
    {w \in [start : 0..(MaxObs + 1), end : 0..(MaxObs + 1)] : w.start <= w.end}
RefWindows == {[start |-> 1, end |-> MaxObs], [start |-> MaxObs + 1, end |-> MaxObs + 1]}
WindowLists ==
    {<<>>} \cup {<<w>> : w \in ValidWindows}
           \cup {<<w, r>> : w \in ValidWindows, r \in RefWindows}

\* Line 284: the dates of the Series inside [start, end].
InWindow(w) == {t \in DOMAIN sreg : t >= w.start /\ t <= w.end}
IsCrisis(t) == sreg[t] = RiskOff

\* Lines 313-325: the maximal runs of crisis dates inside the window, scanned
\* in date order; a run replaces the best so far only when strictly longer.
\* The same grouping without the test of line 320 (runs of any one value).
CrisisRunsAnyValue(w) ==
    {r \in [first : InWindow(w), last : InWindow(w)] :
        /\ r.first <= r.last
        /\ \A t \in r.first..r.last : IsCrisis(t) = IsCrisis(r.first)
        /\ ~(r.first - 1 \in InWindow(w) /\ IsCrisis(r.first - 1) = IsCrisis(r.first))
        /\ ~(r.last + 1 \in InWindow(w) /\ IsCrisis(r.last + 1) = IsCrisis(r.first))}
CrisisRuns(w) ==
    {r \in [first : InWindow(w), last : InWindow(w)] :
        /\ r.first <= r.last
        /\ \A t \in r.first..r.last : IsCrisis(t)
        /\ ~(r.first - 1 \in InWindow(w) /\ IsCrisis(r.first - 1))
        /\ ~(r.last + 1 \in InWindow(w) /\ IsCrisis(r.last + 1))}
\* The scan with ">=" in place of ">" at line 322: the last longest run wins.
RECURSIVE ScanRunsLastWins(_, _)
ScanRunsLastWins(runs, best) ==
    IF runs = {} THEN best
    ELSE LET r == CHOOSE x \in runs : \A y \in runs : x.first <= y.first
             days == r.last - r.first + 1
         IN  ScanRunsLastWins(runs \ {r},
                              IF days >= best.days
                              THEN [days |-> days, first |-> r.first, last |-> r.last]
                              ELSE best)
RECURSIVE ScanRuns(_, _)
ScanRuns(runs, best) ==
    IF runs = {} THEN best
    ELSE LET r == CHOOSE x \in runs : \A y \in runs : x.first <= y.first
             days == r.last - r.first + 1
         IN  ScanRuns(runs \ {r},
                      IF days > best.days
                      THEN [days |-> days, first |-> r.first, last |-> r.last]
                      ELSE best)
MaxRun(w) == ScanRuns(CrisisRuns(w), [days |-> 0, first |-> NaT, last |-> NaT])

\* Lines 306-310.
FirstCrisisDate(w) ==
    LET C == {t \in InWindow(w) : IsCrisis(t)}
    IN  IF C = {} THEN NaT ELSE CHOOSE t \in C : \A u \in C : t <= u

BaseKeys == {"episode", "start", "end", "n_obs", "crisis_share", "first_crisis_date",
             "max_crisis_run_days", "max_crisis_run_start", "max_crisis_run_end"}

\* Lines 288-300: the row of a window without observations.
EmptyRow(ep, w) ==
    [k \in BaseKeys |->
        CASE k = "episode" -> ep
          [] k = "start" -> w.start
          [] k = "end" -> w.end
          [] k = "n_obs" -> 0
          [] k = "crisis_share" -> ShareNaN
          [] k = "max_crisis_run_days" -> 0
          [] OTHER -> NaT]

\* Lines 303-342: the row of a window with observations.
ThresholdKeys == {ThresholdKey(score_threshold[i]) : i \in DOMAIN score_threshold}
\* The share over the days that have a score (sub_score.dropna() before
\* line 342).
ScoreShareSkipMissing(w, st) ==
    ShareOf(Cardinality({t \in InWindow(w) : Ge(ros[t], st)}),
            Cardinality({t \in InWindow(w) : ~IsNaN(ros[t])}))
ScoreShare(w, st) ==
    ShareOf(Cardinality({t \in InWindow(w) : Ge(ros[t], st)}), Cardinality(InWindow(w)))
WindowRow(ep, w) ==
    LET n == Cardinality(InWindow(w))
        best == MaxRun(w)
        keys == IF ros # <<>> THEN BaseKeys \cup ThresholdKeys ELSE BaseKeys
    IN  [k \in keys |->
            CASE k = "episode" -> ep
              [] k = "start" -> w.start
              [] k = "end" -> w.end
              [] k = "n_obs" -> n
              [] k = "crisis_share" ->
                    ShareOf(Cardinality({t \in InWindow(w) : IsCrisis(t)}), n)
              [] k = "first_crisis_date" -> FirstCrisisDate(w)
              [] k = "max_crisis_run_days" -> best.days
              [] k = "max_crisis_run_start" -> best.first
              [] k = "max_crisis_run_end" -> best.last
              [] k = "risk_off_score>=2_share" -> ScoreShare(w, 2)
              [] k = "risk_off_score>=3_share" -> ScoreShare(w, 3)]

\* Lines 349-362 ("Score >= 2 (%)" stands for the source's "Score ≥ 2 (%)").
rename_map(k) ==
    CASE k = "episode" -> "Episode"
      [] k = "start" -> "Start Date"
      [] k = "end" -> "End Date"
      [] k = "n_obs" -> "Observations (d)"
      [] k = "crisis_share" -> "Crisis Days (%)"
      [] k = "first_crisis_date" -> "First Crisis Date"
      [] k = "max_crisis_run_days" -> "Max Crisis Run (d)"
      [] k = "max_crisis_run_start" -> "Max Run Start"
      [] k = "max_crisis_run_end" -> "Max Run End"
      [] k = "risk_off_score>=2_share" -> "Score >= 2 (%)"
      [] k = "risk_off_score>=3_share" -> "Score >= 3 (%)"
      [] OTHER -> k

\* Lines 363-365: the columns scaled by 100, by the names the loop looks for.
ScaledCols == {"Crisis (%)", "Score>=2 (%)", "Score>=3 (%)"}
Scale100(c, v) == IF c \in ScaledCols THEN [v EXCEPT !.num = v.num * 100] ELSE v

\* Line 346 and 362-365: pd.DataFrame(rows) has the union of the rows' keys
\* as columns, a key a row lacks being NaN in that row; then the rename and
\* the scaling.
FrameOf(rs) ==
    LET keys == UNION {DOMAIN rs[i] : i \in DOMAIN rs}
    IN  [i \in DOMAIN rs |->
            [c \in {rename_map(k) : k \in keys} |->
                LET k == CHOOSE x \in keys : rename_map(x) = c
                IN  Scale100(c, IF k \in DOMAIN rs[i] THEN rs[i][k] ELSE ShareNaN)]]

\* Lines 371-383.
keep == {"Episode", "Start Date", "End Date", "Observations (d)", "Crisis Days (%)",
         "First Crisis Date", "Max Crisis Run (d)", "Score >= 2 (%)", "Score >= 3 (%)"}
KeepCols(tbl) ==
    [i \in DOMAIN tbl |-> [c \in DOMAIN tbl[i] \cap keep |-> tbl[i][c]]]

ScoreIdle ==
    /\ sc_in = [labels |-> <<>>, score |-> <<>>, has_score |-> FALSE, windows |-> <<>>]
    /\ spc = "idle"
    /\ sreg = <<>> /\ ros = <<>>
    /\ widx = 0
    /\ rows = <<>> /\ csv_table = <<>> /\ sc_out = <<>>

ScoreStart ==
    /\ \E obs \in {<<>>} \cup SeqsUpTo(ObsKinds, MaxObs), hs \in BOOLEAN,
          ws \in WindowLists :
          sc_in = [labels |-> [t \in DOMAIN obs |-> obs[t].label],
                   score |-> IF hs THEN [t \in DOMAIN obs |-> obs[t].score] ELSE <<>>,
                   has_score |-> hs,
                   windows |-> ws]
    /\ spc = "start"
    /\ sreg = <<>> /\ ros = <<>>
    /\ widx = 0
    /\ rows = <<>> /\ csv_table = <<>> /\ sc_out = <<>>

ScoreFrame == UNCHANGED <<sc_in, rvars, dvars, fvars, pvars, avars, qvars, lvars>>

\* Lines 259-278.
Prepare ==
    /\ spc = "start"
    /\ sreg' = NormalizeLabels(sc_in.labels)
    /\ ros' = IF sc_in.has_score THEN sc_in.score ELSE <<>>
    /\ rows' = <<>>
    /\ widx' = 1
    /\ spc' = "loop"
    /\ UNCHANGED <<csv_table, sc_out>>
    /\ ScoreFrame

\* Lines 280-301: a window without observations.
EmptyWindow ==
    /\ spc = "loop"
    /\ widx <= Len(sc_in.windows)
    /\ InWindow(sc_in.windows[widx]) = {}
    /\ rows' = Append(rows, EmptyRow(widx, sc_in.windows[widx]))
    /\ widx' = widx + 1
    /\ UNCHANGED <<spc, sreg, ros, csv_table, sc_out>>
    /\ ScoreFrame

\* Lines 280-286 and 303-344: a window with observations.
ScoreWindow ==
    /\ spc = "loop"
    /\ widx <= Len(sc_in.windows)
    /\ InWindow(sc_in.windows[widx]) # {}
    /\ rows' = Append(rows, WindowRow(widx, sc_in.windows[widx]))
    /\ widx' = widx + 1
    /\ UNCHANGED <<spc, sreg, ros, csv_table, sc_out>>
    /\ ScoreFrame

\* Lines 346-385.
Finish ==
    /\ spc = "loop"
    /\ widx > Len(sc_in.windows)
    /\ csv_table' = FrameOf(rows)
    /\ sc_out' = KeepCols(FrameOf(rows))
    /\ spc' = "returned"
    /\ UNCHANGED <<sreg, ros, widx, rows>>
    /\ ScoreFrame

NextScore ==
    \/ Prepare
    \/ EmptyWindow
    \/ ScoreWindow
    \/ Finish

\* ------------------------------- analytics functions and their arguments
\* Objects live in a heap; a name holds an object id.  x.copy() makes a new
\* object, an assignment binds a name to an existing one, df[col] = ... writes
\* into the object the name is bound to.
FeaturesId == 1
RegimesId == 2
WindowsId == 3
ArgIds == {FeaturesId, RegimesId, WindowsId}

FrameCalls == {"regime_distribution", "key_signal_medians_by_regime",
               "feature_summary_by_regime", "stress_window_scorecard"}

\* The arguments: a label Series with missing entries, a feature table on
\* the same dates, an episode table whose start/end columns hold strings or
\* dates.
FrameLabels == SeqsUpTo({RiskOff, LateCycle, NoLabel, NoneLabel}, MaxRows)
FrameFeatures(n) ==
    {[values |-> v, Regime |-> <<>>] : v \in [1..n -> {1, NaN}]}
FrameWindows ==
    {[dtype |-> d, spans |-> <<sp>>] :
        d \in {"str", "datetime64"}, sp \in {<<1, 1>>, <<1, MaxRows>>}}

\* An assignment in place of x.copy(): the name is bound to x itself.
alias(h, id) == [heap |-> h, ref |-> id]
\* x.copy(): a new object with the value of x.
copy(h, id) == [heap |-> Append(h, h[id]), ref |-> Len(h) + 1]
\* An expression that builds a new object with value v.
new(h, v) == [heap |-> Append(h, v), ref |-> Len(h) + 1]

NoLocals == [reg |-> 0, x |-> 0, r |-> 0, df |-> 0, w |-> 0, out |-> 0]

FrameIdle ==
    /\ call = "none"
    /\ heap = <<>> /\ before = <<>>
    /\ locals = NoLocals
    /\ apc = "idle"

FrameStart ==
    /\ call \in FrameCalls
    /\ \E labels \in FrameLabels, w \in FrameWindows :
          \E f \in FrameFeatures(Len(labels)) : heap = <<f, labels, w>>
    /\ before = heap
    /\ locals = NoLocals
    /\ apc = "start"

FrameFrame == UNCHANGED <<call, before, rvars, dvars, fvars, svars, pvars, qvars, lvars>>

\* Line 30: reg = regimes.copy().
CopyRegimes ==
    /\ apc = "start"
    /\ LET c == copy(heap, RegimesId)
       IN  heap' = c.heap /\ locals' = [locals EXCEPT !.reg = c.ref]
    /\ apc' = "fill"
    /\ FrameFrame

\* Lines 38-40: astype, replace and fillna each return a new Series, which
\* reg is rebound to.
FillRegimes ==
    /\ apc = "fill"
    /\ LET c == new(heap, NormalizeLabels(heap[locals.reg]))
       IN  heap' = c.heap /\ locals' = [locals EXCEPT !.reg = c.ref]
    /\ apc' = CASE call = "regime_distribution" -> "table"
                [] call = "stress_window_scorecard" -> "windows"
                [] OTHER -> "align"
    /\ FrameFrame

\* Lines 83-97: the distribution table is built from the counts and
\* written to (Share column, index, attrs) as an object of its own.
BuildDistribution ==
    /\ apc = "table"
    /\ LET c == new(heap, ValueCounts(heap[locals.reg]))
       IN  heap' = c.heap /\ locals' = [locals EXCEPT !.out = c.ref]
    /\ apc' = "returned"
    /\ FrameFrame

\* Lines 61-67: x = features.loc[idx].copy(), r = reg.loc[idx].copy(); the
\* two tables share their dates, so idx is every date.
AlignFeatures ==
    /\ apc = "align"
    /\ LET sel == new(heap, heap[FeaturesId])
           cx == copy(sel.heap, sel.ref)
           rsel == new(cx.heap, heap[locals.reg])
           cr == copy(rsel.heap, rsel.ref)
       IN  heap' = cr.heap /\ locals' = [locals EXCEPT !.x = cx.ref, !.r = cr.ref]
    /\ apc' = "select"
    /\ FrameFrame

\* Lines 132 and 188: df = x[cols].copy().
SelectColumns ==
    /\ apc = "select"
    /\ LET sel == new(heap, heap[locals.x])
           c == copy(sel.heap, sel.ref)
       IN  heap' = c.heap /\ locals' = [locals EXCEPT !.df = c.ref]
    /\ apc' = "attach"
    /\ FrameFrame

\* Lines 133 and 189: df["Regime"] = r.values writes into df.
AttachRegime ==
    /\ apc = "attach"
    /\ heap' = [heap EXCEPT ![locals.df] = [@ EXCEPT !.Regime = heap[locals.r]]]
    /\ apc' = "returned"
    /\ UNCHANGED locals
    /\ FrameFrame

\* Line 268: w = windows.copy().
CopyWindows ==
    /\ apc = "windows"
    /\ LET c == copy(heap, WindowsId)
       IN  heap' = c.heap /\ locals' = [locals EXCEPT !.w = c.ref]
    /\ apc' = "parse"
    /\ FrameFrame

\* Lines 269-270: w["start"] = pd.to_datetime(w["start"]), the same for
\* "end", written into w.  The rest of the function reads w and reg only.
ParseDates ==
    /\ apc = "parse"
    /\ heap' = [heap EXCEPT ![locals.w] = [@ EXCEPT !.dtype = "datetime64"]]
    /\ apc' = "returned"
    /\ UNCHANGED locals
    /\ FrameFrame

NextFrame ==
    \/ CopyRegimes
    \/ FillRegimes
    \/ BuildDistribution
    \/ AlignFeatures
    \/ SelectColumns
    \/ AttachRegime
    \/ CopyWindows
    \/ ParseDates

\* ------------------------------------------------ _read_csv_with_retries
\* Line 20: the exception types the except clause names; any other type
\* (here a connection reset while the body is read) leaves the function.
CaughtErrors == {"URLError", "HTTPError", "TimeoutError", "ValueError"}
OtherErrors == {"ConnectionResetError"}
Success == "ok"

RetryIdle ==
    /\ q_in = [retries |-> 0, backoff_seconds |-> 0]
    /\ attempt = 0
    /\ log = <<>> /\ slept = <<>>
    /\ qpc = "idle"

\* Lines 12-14: the arguments, last_err = None, the loop not yet entered.
RetryStart ==
    /\ q_in \in [retries : 0..MaxRetries, backoff_seconds : {1, 3}]
    /\ attempt = 0
    /\ log = <<>> /\ slept = <<>>
    /\ qpc = "loop"

RetryFrame == UNCHANGED <<q_in, rvars, dvars, fvars, svars, pvars, avars, lvars>>

\* Line 22 with "<=" in place of "<".
AnotherAttemptFollowsOrLast(a, retries) == a <= retries
\* Line 22: attempt < retries.
AnotherAttemptFollows(a, retries) == a < retries

\* Line 16: the next value of range(1, retries + 1).
NextAttempt ==
    /\ qpc = "loop"
    /\ attempt < q_in.retries
    /\ attempt' = attempt + 1
    /\ qpc' = "try"
    /\ UNCHANGED <<log, slept>>
    /\ RetryFrame

\* Lines 16 and 27: the range is exhausted, the raise after the loop.
LoopExhausted ==
    /\ qpc = "loop"
    /\ attempt >= q_in.retries
    /\ qpc' = "raised FREDDownloadError"
    /\ UNCHANGED <<attempt, log, slept>>
    /\ RetryFrame

\* Lines 18-19: the download and the parse succeed.
AttemptReturns ==
    /\ qpc = "try"
    /\ log' = Append(log, Success)
    /\ qpc' = "returned"
    /\ UNCHANGED <<attempt, slept>>
    /\ RetryFrame

\* Lines 20-23: a caught error with another attempt to follow.
CaughtThenSleep ==
    /\ qpc = "try"
    /\ AnotherAttemptFollows(attempt, q_in.retries)
    /\ \E e \in CaughtErrors : log' = Append(log, e)
    /\ slept' = Append(slept, q_in.backoff_seconds * 2 ^ (attempt - 1))
    /\ qpc' = "loop"
    /\ UNCHANGED attempt
    /\ RetryFrame

\* Lines 20-21 and 24-27: a caught error on the last attempt, break, raise.
CaughtThenRaise ==
    /\ qpc = "try"
    /\ ~AnotherAttemptFollows(attempt, q_in.retries)
    /\ \E e \in CaughtErrors : log' = Append(log, e)
    /\ qpc' = "raised FREDDownloadError"
    /\ UNCHANGED <<attempt, slept>>
    /\ RetryFrame

\* Lines 18-20: an exception of a type the except clause does not name.
AttemptPropagates ==
    /\ qpc = "try"
    /\ \E e \in OtherErrors : log' = Append(log, e)
    /\ qpc' = "raised other"
    /\ UNCHANGED <<attempt, slept>>
    /\ RetryFrame

NextRetry ==
    \/ NextAttempt
    \/ LoopExhausted
    \/ AttemptReturns
    \/ CaughtThenSleep
    \/ CaughtThenRaise
    \/ AttemptPropagates

\* ----------------------------------------------------- load_macro_series
\* Lines 51-57: FRED codes and the column each is renamed to.
FredCodes == {"DGS10", "DGS2", "BAA10Y", "VIXCLS"}
ColumnOf(code) ==
    CASE code = "DGS10" -> "ust_10y"
      [] code = "DGS2" -> "ust_2y"
      [] code = "BAA10Y" -> "baa_10y_spread"
      [] code = "VIXCLS" -> "vix"
\* A series_map is a dict: its keys are distinct, its order is kept.
SeriesMaps ==
    {<<>>} \cup {m \in SeqsUpTo(FredCodes, MaxSeries) :
                    \A i \in DOMAIN m, j \in DOMAIN m : i # j => m[i] # m[j]}
CodesOf(m) == {m[i] : i \in DOMAIN m}

LoadIdle ==
    /\ l_in = [series_map |-> <<>>, allow_partial |-> TRUE, loads |-> {}]
    /\ lidx = 0
    /\ fetched = <<>> /\ data = <<>> /\ failures = {}
    /\ lpc = "idle"
    /\ lout = <<>>

\* Lines 59-60; `loads` is the set of codes for which _fred_series returns
\* a series during this call, the others raise.
LoadStart ==
    /\ \E m \in SeriesMaps, ap \in BOOLEAN, ok \in SUBSET FredCodes :
          /\ ok \subseteq CodesOf(m)
          /\ l_in = [series_map |-> m, allow_partial |-> ap, loads |-> ok]
    /\ lidx = 1
    /\ fetched = <<>> /\ data = <<>> /\ failures = {}
    /\ lpc = "loop"
    /\ lout = <<>>

LoadFrame == UNCHANGED <<l_in, rvars, dvars, fvars, svars, pvars, avars, qvars>>

\* Line 72 testing the failures in place of the data.
AnySeriesFailed(d, f) == f # {}
\* Line 72: not data.
AllSeriesFailed(d, f) == d = <<>>

\* Lines 62-65: the series loads.
FetchLoads ==
    /\ lpc = "loop"
    /\ lidx <= Len(l_in.series_map)
    /\ l_in.series_map[lidx] \in l_in.loads
    /\ fetched' = Append(fetched, l_in.series_map[lidx])
    /\ data' = Append(data, ColumnOf(l_in.series_map[lidx]))
    /\ lidx' = lidx + 1
    /\ UNCHANGED <<failures, lpc, lout>>
    /\ LoadFrame

\* Lines 66-70 with allow_partial: the failure is recorded, the loop goes on.
FetchFailsWarn ==
    /\ lpc = "loop"
    /\ lidx <= Len(l_in.series_map)
    /\ l_in.series_map[lidx] \notin l_in.loads
    /\ l_in.allow_partial
    /\ fetched' = Append(fetched, l_in.series_map[lidx])
    /\ failures' = failures \cup {l_in.series_map[lidx]}
    /\ lidx' = lidx + 1
    /\ UNCHANGED <<data, lpc, lout>>
    /\ LoadFrame

\* Lines 66-69 without allow_partial: the exception is raised again.
FetchFailsReraise ==
    /\ lpc = "loop"
    /\ lidx <= Len(l_in.series_map)
    /\ l_in.series_map[lidx] \notin l_in.loads
    /\ ~l_in.allow_partial
    /\ fetched' = Append(fetched, l_in.series_map[lidx])
    /\ failures' = failures \cup {l_in.series_map[lidx]}
    /\ lpc' = "reraised"
    /\ UNCHANGED <<lidx, data, lout>>
    /\ LoadFrame

\* Lines 72-73.
RaiseAllFailed ==
    /\ lpc = "loop"
    /\ lidx > Len(l_in.series_map)
    /\ AllSeriesFailed(data, failures)
    /\ lpc' = "raised FREDDownloadError"
    /\ UNCHANGED <<lidx, fetched, data, failures, lout>>
    /\ LoadFrame

\* Lines 75-83: the loaded series side by side, one column each; the row
\* operations (sort, dropna(how="all"), duplicated) leave the columns alone.
ReturnTable ==
    /\ lpc = "loop"
    /\ lidx > Len(l_in.series_map)
    /\ ~AllSeriesFailed(data, failures)
    /\ lout' = data
    /\ lpc' = "returned"
    /\ UNCHANGED <<lidx, fetched, data, failures>>
    /\ LoadFrame

NextLoad ==
    \/ FetchLoads
    \/ FetchFailsWarn
    \/ FetchFailsReraise
    \/ RaiseAllFailed
    \/ ReturnTable

\* ----------------------------------------------------------- specifications
InitRegime == RegimeStart /\ DistIdle /\ FeatIdle /\ ScoreIdle /\ PairIdle /\ FrameIdle /\ RetryIdle /\ LoadIdle
InitDist == DistStart /\ RegimeIdle /\ FeatIdle /\ ScoreIdle /\ PairIdle /\ FrameIdle /\ RetryIdle /\ LoadIdle
InitFeat == FeatStart /\ RegimeIdle /\ DistIdle /\ ScoreIdle /\ PairIdle /\ FrameIdle /\ RetryIdle /\ LoadIdle
InitScore == ScoreStart /\ RegimeIdle /\ DistIdle /\ FeatIdle /\ PairIdle /\ FrameIdle /\ RetryIdle /\ LoadIdle
InitPair == PairStart /\ RegimeIdle /\ DistIdle /\ FeatIdle /\ ScoreIdle /\ FrameIdle /\ RetryIdle /\ LoadIdle
InitFrame ==
    FrameStart /\ RegimeIdle /\ DistIdle /\ FeatIdle /\ ScoreIdle /\ PairIdle /\ RetryIdle /\ LoadIdle
InitRetry ==
    RetryStart /\ RegimeIdle /\ DistIdle /\ FeatIdle /\ ScoreIdle /\ PairIdle /\ FrameIdle /\ LoadIdle
InitLoad ==
    LoadStart /\ RegimeIdle /\ DistIdle /\ FeatIdle /\ ScoreIdle /\ PairIdle /\ FrameIdle /\ RetryIdle

SpecRegime == InitRegime /\ [][NextRegime]_vars
SpecDist == InitDist /\ [][NextDist]_vars
SpecFeat == InitFeat /\ [][NextFeat]_vars
SpecScore == InitScore /\ [][NextScore]_vars
SpecPair == InitPair /\ [][NextPair]_vars
SpecFrame == InitFrame /\ [][NextFrame]_vars
\* The loop of _read_csv_with_retries runs on: urlopen has a timeout and
\* time.sleep returns.
SpecRetry == InitRetry /\ [][NextRetry]_vars /\ WF_vars(NextRetry)
SpecLoad == InitLoad /\ [][NextLoad]_vars

\* ================================================================== claims
HasRequired == required \subseteq features.cols
ScoreAtLeast3(t) ==
    "risk_off_score" \in features.cols /\ Ge(Col("risk_off_score", t), 3)
NoExitThrough(s, t) == \A u \in (s + 1)..t : ~exit_crisis(u)

\* C1: if day s is labeled Risk-off / crisis and the exit condition is false
\* on every day of s+1..t, then every day of s+1..t is labeled Risk-off /
\* crisis, for runs of any length.
C1_PersistenceCarriesThroughRuns ==
    (rpc = "returned" /\ HasRequired) =>
        \A s \in Days, t \in Days :
            (s < t /\ regime[s] = RiskOff /\ NoExitThrough(s, t)) =>
                \A u \in (s + 1)..t : regime[u] = RiskOff

\* C2: for every input table the classifier returns one label per date, each
\* one of the five regime labels.
C2_OneClosedLabelPerDate ==
    (rpc \in {"returned", "raised"}) =>
        /\ rpc = "returned"
        /\ DOMAIN regime = Days
        /\ \A t \in Days : regime[t] \in RegimeLabels

\* Whenever the classifier does return, the labels are closed over the five
\* values (the part of C2 that the code keeps).
ReturnedLabelsClosed ==
    rpc = "returned" =>
        DOMAIN regime = Days /\ \A t \in Days : regime[t] \in RegimeLabels

\* The two raw tables hold the same values at every position <= k.
AgreeUpTo(k) ==
    \A c \in DOMAIN macro : \A i \in Dates : i <= k => macro[c][i] = macro_alt[c][i]
SameRowAt(t) == \A c \in DOMAIN df : df[c][t] = df_alt[c][t]

\* C3: two raw tables that agree on every position <= t - lag_days give the
\* same value at position t in every column build_features returns.
C3_NoLookahead ==
    fpc = "returned" =>
        /\ DOMAIN df = DOMAIN df_alt
        /\ \A t \in Dates : AgreeUpTo(t - params.lag_days) => SameRowAt(t)

\* Two returned runs whose raw tables differ from position k+1 on: the row
\* at k + lag_days is the same, carries a z-score and a 1m change, and a
\* later row differs.
C3_Witness ==
    /\ fpc = "returned"
    /\ "credit_z_1y" \in DOMAIN df
    /\ \E t \in Dates :
        /\ t - params.lag_days >= 1
        /\ AgreeUpTo(t - params.lag_days) /\ ~AgreeUpTo(t - params.lag_days + 1)
        /\ SameRowAt(t)
        /\ df["credit_z_1y"][t] # ZNaN
        /\ ~IsNaN(df["credit_chg_1m"][t])
        /\ \E u \in Dates : u > t /\ ~SameRowAt(u)

\* C4 as stated: every day with risk_off_score >= 3 is labeled Risk-off /
\* crisis in the returned Series, whatever else holds.
C4_OverrideOnEveryTable ==
    rpc = "returned" => \A t \in Days : ScoreAtLeast3(t) => regime[t] = RiskOff

\* C4 amended: when the six required columns are present, every day with
\* risk_off_score >= 3 is labeled Risk-off / crisis in the returned Series,
\* whatever the predicates, the exit condition and the previous label are.
C4_OverrideWhenRequiredPresent ==
    (rpc = "returned" /\ HasRequired) =>
        \A t \in Days : ScoreAtLeast3(t) => regime[t] = RiskOff

\* A returned day with score 3 whose only true predicate is late_cycle, with
\* the exit condition met and no previous crisis day, labeled crisis.
C4_Witness ==
    /\ rpc = "returned" /\ HasRequired
    /\ \E t \in Days :
        /\ ScoreAtLeast3(t) /\ late_cycle[t] /\ ~crisis[t]
        /\ exit_crisis(t) /\ ~PersistMask(t)
        /\ regime[t] = RiskOff

HighestTrueLabel(t) ==
    IF crisis[t] THEN RiskOff
    ELSE IF pivot[t] THEN PolicyPivot
    ELSE IF late_cycle[t] THEN LateCycle
    ELSE RiskOn
AnyPredicate(t) == crisis[t] \/ pivot[t] \/ late_cycle[t] \/ expansion[t]

PredicatesExclusive ==
    rpc \in {"assign", "override", "persist", "fill", "returned"} /\ HasRequired =>
        \A t \in Days :
            Cardinality({m \in {"e", "l", "p", "c"} :
                \/ (m = "e" /\ expansion[t]) \/ (m = "l" /\ late_cycle[t])
                \/ (m = "p" /\ pivot[t]) \/ (m = "c" /\ crisis[t])}) <= 1

\* C6: with a required column absent, every date is labeled Transition and
\* no predicate, override or persistence logic runs, score >= 3 or not.
C6_RequiredMissingAllTransition ==
    ~HasRequired =>
        /\ rpc \in {"start", "returned"}
        /\ expansion = <<>> /\ late_cycle = <<>> /\ pivot = <<>> /\ crisis = <<>>
        /\ crisis_active = <<>>
        /\ rpc = "returned" =>
               DOMAIN regime = Days /\ \A t \in Days : regime[t] = Transition

\* A returned all-Transition table lacking a required column, with a day
\* whose risk_off_score is 3.
C6_Witness ==
    /\ rpc = "returned" /\ ~HasRequired
    /\ "risk_off_score" \in features.cols
    /\ \E t \in Days : ScoreAtLeast3(t) /\ regime[t] = Transition
    /\ \A t \in Days : regime[t] = Transition

\* C7: with the six required columns present and an optional column absent,
\* the classifier raises nothing.
C7_NoExceptionWithoutOptional ==
    (HasRequired /\ ~(OptionalCols \subseteq features.cols)) => rpc # "raised"

\* C8: the Days of the returned table sum to the number of input dates, and
\* total_days (when attached) equals it; a date-indexed Series always returns.
C8_DistributionClosure ==
    /\ dpc = "raised" => ~dist_in.datetime
    /\ dpc = "returned" =>
        /\ SumDays(out) = Len(dist_in.labels)
        /\ dist_in.include_total => total_days = Len(dist_in.labels)

\* A returned table for a Series with a missing entry, an unrecognized
\* string and a regime label.
C8_Witness ==
    /\ dpc = "returned" /\ dist_in.include_total
    /\ \E i, j, k \in DOMAIN dist_in.labels :
        /\ dist_in.labels[i] \in {NoLabel, NoneLabel}
        /\ dist_in.labels[j] = Unknown
        /\ dist_in.labels[k] = RiskOff
    /\ total_days = Len(dist_in.labels)

\* C9: the returned table has one row per label of REGIME_ORDER, in that
\* order, a label that never occurs having a count of zero.
C9_FiveRowsInCanonicalOrder ==
    dpc = "returned" =>
        /\ Len(out) = Len(REGIME_ORDER)
        /\ \A i \in 1..Len(REGIME_ORDER) :
            /\ out[i].Regime = REGIME_ORDER[i]
            /\ out[i].Days = Cardinality({k \in DOMAIN reg : reg[k] = REGIME_ORDER[i]})

\* The rows of the returned table whose window held no observation.
EmptyRowsOut == {i \in DOMAIN sc_out : sc_out[i]["Observations (d)"] = 0}
ShareCols == {"Crisis Days (%)", "Score >= 2 (%)", "Score >= 3 (%)"}
Undefined(row, c) == IF c \in ShareCols THEN row[c] = ShareNaN ELSE row[c] = NaN

\* C10: a window without observations gives a row with observation count 0
\* in which every derived statistic is undefined, none reported as zero.
C10_EmptyWindowAllUndefined ==
    spc = "returned" =>
        /\ Len(sc_out) = Len(sc_in.windows)
        /\ \A i \in DOMAIN sc_out :
            InWindow(sc_in.windows[i]) = {} =>
                /\ sc_out[i]["Observations (d)"] = 0
                /\ \A c \in DOMAIN sc_out[i] \ {"Episode", "Start Date", "End Date",
                                               "Observations (d)"} :
                       Undefined(sc_out[i], c)

\* What the code does keep for such a row: count 0, no exception, every
\* derived field undefined except the run length, which is 0.
EmptyWindowRowShape ==
    spc = "returned" =>
        /\ Len(sc_out) = Len(sc_in.windows)
        /\ \A i \in DOMAIN sc_out :
            InWindow(sc_in.windows[i]) = {} =>
                /\ sc_out[i]["Observations (d)"] = 0
                /\ sc_out[i]["Max Crisis Run (d)"] = 0
                /\ \A c \in DOMAIN sc_out[i] \ {"Episode", "Start Date", "End Date",
                                               "Observations (d)", "Max Crisis Run (d)"} :
                       Undefined(sc_out[i], c)

\* ---- Longest crisis run of a window (C11, C12)
\* The dates a..b all lie in the window and are all labeled crisis.
AllCrisis(w, a, b) ==
    a <= b /\ \A t \in a..b : t \in InWindow(w) /\ IsCrisis(t)
CrisisSpans(w) ==
    {ab \in (DOMAIN sreg) \X (DOMAIN sreg) : AllCrisis(w, ab[1], ab[2])}
LongestCrisis(w) ==
    IF CrisisSpans(w) = {} THEN 0
    ELSE LET ab == CHOOSE x \in CrisisSpans(w) :
                        \A y \in CrisisSpans(w) : y[2] - y[1] <= x[2] - x[1]
         IN  ab[2] - ab[1] + 1
\* The rows of the full scorecard (the one written to the CSV) whose window
\* holds at least one observation.
ObservedRows == {i \in DOMAIN csv_table : InWindow(sc_in.windows[i]) # {}}

\* C11: when several crisis runs of a window share the greatest length, the
\* scorecard row carries the start and end date of the earliest of them: the
\* recorded span is a crisis run of the recorded length, and no crisis span
\* of that length starts before it.
C11_FirstLongestRunWins ==
    spc = "returned" =>
        \A i \in ObservedRows :
            LET w == sc_in.windows[i]
                row == csv_table[i]
            IN  row["Max Crisis Run (d)"] > 0 =>
                    /\ AllCrisis(w, row["Max Run Start"], row["Max Run End"])
                    /\ row["Max Run End"] - row["Max Run Start"] + 1
                           = row["Max Crisis Run (d)"]
                    /\ \A ab \in CrisisSpans(w) :
                           ab[2] - ab[1] + 1 = row["Max Crisis Run (d)"]
                               => row["Max Run Start"] <= ab[1]

\* A window with two longest crisis runs of equal length, the earlier one
\* being the one recorded.
C11_Witness ==
    /\ spc = "returned"
    /\ \E i \in ObservedRows :
           LET w == sc_in.windows[i]
               row == csv_table[i]
           IN  /\ row["Max Crisis Run (d)"] = LongestCrisis(w)
               /\ row["Max Crisis Run (d)"] > 0
               /\ \E ab \in CrisisSpans(w) :
                      /\ ab[2] - ab[1] + 1 = LongestCrisis(w)
                      /\ ab[1] > row["Max Run End"]

AvailableSignals(d, i) == {c \in Signals(d) : ~IsNaN(d[c][i])}

\* C13: on each day the composite score is missing when no sub-signal's
\* underlying value is available, and otherwise the number of true
\* sub-signals among the available ones, between 0 and their number.
C13_ScoreOverAvailableSignals ==
    (fpc = "returned" /\ "risk_off_score" \in DOMAIN df) =>
        \A i \in Dates :
            LET avail == AvailableSignals(df, i)
                score == df["risk_off_score"][i]
            IN  IF avail = {} THEN IsNaN(score)
                ELSE /\ score = Cardinality({c \in avail : SignalOn(df, c, i)})
                     /\ score >= 0 /\ score <= Cardinality(avail)

\* The position of the last known value before a missing position i of x.
LastKnown(x, i) == {j \in 1..(i - 1) : ~IsNaN(x[j]) /\ \A k \in (j + 1)..i : IsNaN(x[k])}

\* C14: once the fill has run, every raw column equals its lagged series
\* where that series has a value; a missing position holds the last known
\* value when that value is at most fill_days positions back, and stays
\* missing otherwise.
C14_BoundedForwardFill ==
    fpc \notin {"idle", "lag", "fill"} =>
        \A c \in DOMAIN macro :
            LET x == Shift(macro[c], params.lag_days)
                y == df[c]
            IN  \A i \in Dates :
                    /\ ~IsNaN(x[i]) => y[i] = x[i]
                    /\ IsNaN(x[i]) =>
                           IF \E j \in LastKnown(x, i) : i - j <= params.fill_days
                           THEN \A j \in LastKnown(x, i) : y[i] = x[j]
                           ELSE IsNaN(y[i])

\* A gap longer than fill_days: one of its positions is filled and a later
\* one, beyond the cap, is still missing.
C14_Witness ==
    /\ fpc = "returned"
    /\ \E c \in DOMAIN macro :
           LET x == Shift(macro[c], params.lag_days)
           IN  \E i \in Dates, k \in Dates :
                   /\ i < k
                   /\ \A u \in i..k : IsNaN(x[u])
                   /\ LastKnown(x, i) # {}
                   /\ ~IsNaN(df[c][i])
                   /\ IsNaN(df[c][k])

\* The z-score columns and the column each is computed from.
ZSource(z) ==
    CASE z = "curve_z_1y" -> "curve_10y2y"
      [] z = "credit_z_1y" -> "credit_level"
      [] z = "vix_z_1y" -> "vix_level"
ZCols(d) == {z \in {"curve_z_1y", "credit_z_1y", "vix_z_1y"} : z \in DOMAIN d}
\* The non-missing values of x in the window of length w that ends at i.
InTrailing(x, i, w) == {j \in DOMAIN x : j > i - w /\ j <= i /\ ~IsNaN(x[j])}
\* The ceiling and the integer part of 0.8 * w.
Ceil08(w) == CHOOSE k \in 0..w : 10 * k >= 8 * w /\ 10 * (k - 1) < 8 * w
Trunc08(w) == CHOOSE k \in 0..w : 10 * k <= 8 * w /\ 10 * (k + 1) > 8 * w

\* C15 as stated: a z-score is missing whenever fewer than ceil(0.8 * long
\* window) non-missing values lie in its trailing window.
C15_CeilingFloor ==
    fpc = "returned" =>
        \A z \in ZCols(df) : \A i \in Dates :
            Cardinality(InTrailing(df[ZSource(z)], i, params.days_1y))
                < Ceil08(params.days_1y) => df[z][i] = ZNaN

\* C15 amended: the floor is the integer part of 0.8 * long window.  A
\* z-score is missing whenever fewer than that many non-missing values lie in
\* its trailing window, and it is present when at least that many (and at
\* least two) do, the day's own value is present and the values differ.
C15_TruncatedFloor ==
    fpc = "returned" =>
        \A z \in ZCols(df) : \A i \in Dates :
            LET x == df[ZSource(z)]
                W == InTrailing(x, i, params.days_1y)
                n == Cardinality(W)
            IN  /\ n < Trunc08(params.days_1y) => df[z][i] = ZNaN
                /\ (/\ n >= Trunc08(params.days_1y) /\ n >= 2
                    /\ ~IsNaN(x[i])
                    /\ \E j \in W, k \in W : x[j] # x[k]) => df[z][i] # ZNaN

\* Two differing values in the window, the day's own among them, and a floor
\* of three: the z-score is missing only because of the floor.
C15_Witness ==
    /\ fpc = "returned"
    /\ \E z \in ZCols(df), i \in Dates :
           LET x == df[ZSource(z)]
               W == InTrailing(x, i, params.days_1y)
           IN  /\ Cardinality(W) >= 2
               /\ Cardinality(W) < Trunc08(params.days_1y)
               /\ ~IsNaN(x[i])
               /\ \E j \in W, k \in W : x[j] # x[k]
               /\ df[z][i] = ZNaN

\* ---- Classifier: inputs, first day, memory, exit (C16 - C20)
\* C16: rule_based_regime returns a result only for a table whose index is
\* temporal and free of duplicate dates; any other index makes it raise.
C16_InvalidIndexRaises ==
    rpc = "returned" => features.index = DatetimeIndex

\* The step-by-step run and the day-by-day function give the same labels on
\* every table that has all eight columns.
LabelsOfAgreesWithSteps ==
    (rpc = "returned" /\ features.cols = AllCols) => regime = LabelsOf(features.rows)

\* C17: the first date is labeled crisis only if its own crisis predicate is
\* true or its score is at least 3, whatever the exit condition is there.
C17_FirstDayNeverInherits ==
    (rpc = "returned" /\ HasRequired) =>
        (regime[1] = RiskOff => (crisis_pred(1) \/ ScoreAtLeast3(1)))

\* A first date on which the exit condition is not met and neither the
\* crisis predicate nor the override is true: it is not labeled crisis.
C17_Witness ==
    /\ rpc = "returned" /\ HasRequired
    /\ ~exit_crisis(1) /\ ~crisis_pred(1) /\ ~ScoreAtLeast3(1)
    /\ regime[1] # RiskOff

\* C18: two feature tables with the same row at day t whose returned labels
\* agree at day t-1 have the same returned label at day t.
C18_OneStepMemory ==
    ppc = "returned" =>
        \A t \in (DOMAIN features_a) \cap (DOMAIN features_b) :
            (/\ t > 1
             /\ features_a[t] = features_b[t]
             /\ regime_a[t - 1] = regime_b[t - 1]) => regime_a[t] = regime_b[t]

\* Day t has no crisis day before it in the returned labels.
AfterNonCrisis(t) == t = 1 \/ regime[t - 1] # RiskOff

C20_CrisisExit ==
    (rpc = "returned" /\ HasRequired) =>
        \A t \in Days :
            (t > 1 /\ regime[t - 1] = RiskOff) =>
                /\ ~exit_crisis(t) => regime[t] = RiskOff
                /\ (exit_crisis(t) /\ ~crisis_pred(t) /\ ~ScoreAtLeast3(t))
                       => regime[t] # RiskOff

\* ---- Fallback, missing signals, order of override and persistence (C21 - C23)
AnyOwnPredicate(t) ==
    expansion_pred(t) \/ late_cycle_pred(t) \/ pivot_pred(t) \/ crisis_pred(t)
\* Persistence as the label sequence shows it: the previous day is labeled
\* crisis and the exit condition is not met.
PersistenceApplies(t) == t > 1 /\ regime[t - 1] = RiskOff /\ ~exit_crisis(t)

\* C21: a day is labeled Transition if and only if none of the four
\* predicates is true on it, its score is not >= 3 and crisis persistence
\* does not apply to it.
C21_TransitionIffNothingApplies ==
    (rpc = "returned" /\ HasRequired) =>
        \A t \in Days :
            regime[t] = Transition <=>
                (~AnyOwnPredicate(t) /\ ~ScoreAtLeast3(t) /\ ~PersistenceApplies(t))

\* What the code keeps of C21: the same equivalence with the persistence
\* mask of line 133, which looks back at the flag of line 131.
TransitionIffNoMask ==
    (rpc = "returned" /\ HasRequired) =>
        \A t \in Days :
            regime[t] = Transition <=>
                (~AnyOwnPredicate(t) /\ ~OverrideMask(t) /\ ~PersistMask(t))

\* Every value the classifier reads on day t is missing.
AllMissing(t) == \A c \in AllCols : IsNaN(Col(c, t))

\* C22: a day on which every feature value read by the classifier is missing
\* is labeled Transition, also when it follows a crisis-labeled day.
C22_MissingDayIsTransition ==
    (rpc = "returned" /\ HasRequired) =>
        \A t \in Days : AllMissing(t) => regime[t] = Transition

\* Day t is crisis through the score override alone, with no crisis
\* predicate and nothing carried into it.
OverrideOnly(t) ==
    /\ OverrideMask(t) /\ ~crisis_pred(t)
    /\ (t = 1 \/ exit_crisis(t))

ThresholdCols == {rename_map(k) : k \in ThresholdKeys}
\* The days of window w whose supplied score is present and at least st.
DaysMeeting(w, st) ==
    {t \in InWindow(w) : ~IsNaN(sc_in.score[t]) /\ sc_in.score[t] >= st}

\* C24: with a score series supplied, the row of every window with
\* observations holds, for each threshold, (days with score >= threshold) /
\* (observations of the window), a day without score counting as not
\* meeting it, and the returned table shows the same value; with no score
\* series, no row and no table has a threshold-share column.
C24_ThresholdShares ==
    spc = "returned" =>
        /\ Len(rows) = Len(sc_in.windows) /\ Len(sc_out) = Len(sc_in.windows)
        /\ \A i \in DOMAIN rows :
            LET w == sc_in.windows[i]
            IN  IF sc_in.has_score
                THEN InWindow(w) # {} =>
                        \A j \in DOMAIN score_threshold :
                            LET st == score_threshold[j]
                                share == [num |-> Cardinality(DaysMeeting(w, st)),
                                          den |-> Cardinality(InWindow(w))]
                            IN  /\ rows[i][ThresholdKey(st)] = share
                                /\ sc_out[i][rename_map(ThresholdKey(st))] = share
                ELSE /\ DOMAIN rows[i] \cap ThresholdKeys = {}
                     /\ DOMAIN csv_table[i] \cap ThresholdCols = {}
                     /\ DOMAIN sc_out[i] \cap ThresholdCols = {}

\* A window holding a day without score next to a day that meets a
\* threshold: the day without score is in the denominator only.
C24_Witness ==
    /\ spc = "returned" /\ sc_in.has_score
    /\ \E i \in DOMAIN rows :
           LET w == sc_in.windows[i]
               k == ThresholdKey(score_threshold[1])
           IN  /\ \E t \in InWindow(w) : IsNaN(sc_in.score[t])
               /\ DaysMeeting(w, score_threshold[1]) # {}
               /\ rows[i][k].den = Cardinality(InWindow(w))
               /\ rows[i][k].num < rows[i][k].den

\* ---- Columns of the feature table (C25)
\* The derived columns that the raw columns `raw` allow.
DerivableFrom(raw) ==
    (IF {"ust_10y", "ust_2y"} \subseteq raw THEN {"curve_10y2y", "curve_z_1y"} ELSE {})
    \cup (IF "ust_10y" \in raw THEN {"ust_10y_chg_1m"} ELSE {})
    \cup (IF "ust_2y" \in raw THEN {"ust_2y_chg_1m"} ELSE {})
    \cup (IF "baa_10y_spread" \in raw
          THEN {"credit_level", "credit_chg_1m", "credit_z_1y"} ELSE {})
    \cup (IF "vix" \in raw THEN {"vix_level", "vix_chg_1m", "vix_z_1y"} ELSE {})
    \cup (IF {"ust_10y", "ust_2y"} \subseteq raw \/ "baa_10y_spread" \in raw \/ "vix" \in raw
          THEN {"risk_off_score"} ELSE {})

\* C25: for every subset of the raw columns the run never leaves the
\* straight path to its return, and the returned table has the raw columns
\* and exactly the derived columns whose raw series are all present.
C25_DerivedColumnsFollowInputs ==
    /\ fpc \in {"idle", "lag", "fill", "curve", "momentum", "credit", "vix", "score",
                "save", "returned"}
    /\ fpc = "returned" =>
           /\ DOMAIN df = DOMAIN macro \cup DerivableFrom(DOMAIN macro)
           /\ DOMAIN df_alt = DOMAIN macro_alt \cup DerivableFrom(DOMAIN macro_alt)

\* A table with one yield and without the volatility index: its momentum
\* column is there, the curve and the volatility columns are not.
C25_Witness ==
    /\ fpc = "returned"
    /\ "ust_10y" \in DOMAIN macro /\ "ust_2y" \notin DOMAIN macro
    /\ "vix" \notin DOMAIN macro
    /\ "ust_10y_chg_1m" \in DOMAIN df
    /\ "curve_10y2y" \notin DOMAIN df
    /\ "vix_level" \notin DOMAIN df

\* ---- Analytics leave their arguments alone (C26)
\* C26: at every point of regime_distribution, key_signal_medians_by_regime,
\* feature_summary_by_regime and stress_window_scorecard the feature table,
\* the label Series and the episode table passed in hold the values they
\* held when the call began.
C26_ArgumentsUnchanged ==
    apc # "idle" => \A id \in ArgIds : heap[id] = before[id]

\* A finished stress_window_scorecard call that filled a missing label and
\* parsed string dates in its own objects: the label Series passed in still
\* has its missing entry, the episode table still has its strings.
C26_Witness ==
    /\ apc = "returned" /\ call = "stress_window_scorecard"
    /\ \E i \in DOMAIN heap[RegimesId] :
           /\ heap[RegimesId][i] \in {NoLabel, NoneLabel}
           /\ heap[locals.reg][i] = Transition
    /\ heap[WindowsId].dtype = "str"
    /\ heap[locals.w].dtype = "datetime64"

\* ---- Download with retries (C27)
RetryDone == qpc \in {"returned", "raised FREDDownloadError", "raised other"}
\* The attempts so far that ended in a caught error and had another attempt
\* after them.
FollowedFailures == {k \in DOMAIN log : log[k] \in CaughtErrors /\ k < q_in.retries}
RetrySafe ==
    qpc # "idle" =>
        /\ Len(log) <= q_in.retries /\ attempt <= q_in.retries
        /\ \A k \in DOMAIN log : k < Len(log) => log[k] \in CaughtErrors
        /\ (log # <<>> /\ log[Len(log)] = Success) <=> qpc = "returned"
        /\ qpc = "raised FREDDownloadError" <=>
               (RetryDone /\ Len(log) = q_in.retries
                          /\ \A k \in DOMAIN log : log[k] \in CaughtErrors)
        /\ DOMAIN slept = FollowedFailures
        /\ \A k \in DOMAIN slept : slept[k] = q_in.backoff_seconds * 2 ^ (k - 1)

LoadDone == lpc \in {"returned", "raised FREDDownloadError", "reraised"}
\* The position of the first series that fails, 0 if none does.
FirstFailure ==
    LET F == {i \in DOMAIN l_in.series_map : l_in.series_map[i] \notin l_in.loads}
    IN  IF F = {} THEN 0 ELSE CHOOSE i \in F : \A j \in F : i <= j
\* The columns of the series that load, in the order of the map.
LoadedColumns ==
    LET m == l_in.series_map
        idx == SelectSeq([i \in DOMAIN m |-> i], LAMBDA i : m[i] \in l_in.loads)
    IN  [k \in DOMAIN idx |-> ColumnOf(m[idx[k]])]

\* C28: with allow_partial every series of the map is fetched, the returned
\* table has exactly the columns of the series that loaded, and
\* FREDDownloadError is raised exactly when none loaded; without
\* allow_partial the first failure is raised again and nothing after it is
\* fetched.
C28_PartialAvailability ==
    LoadDone =>
        IF l_in.allow_partial
        THEN /\ fetched = l_in.series_map
             /\ lpc # "reraised"
             /\ lpc = "raised FREDDownloadError" <=> l_in.loads = {}
             /\ lpc = "returned" => lout = LoadedColumns
        ELSE IF FirstFailure > 0
        THEN /\ lpc = "reraised"
             /\ fetched = SubSeq(l_in.series_map, 1, FirstFailure)
        ELSE /\ fetched = l_in.series_map
             /\ lpc = "raised FREDDownloadError" <=> l_in.series_map = <<>>
             /\ lpc = "returned" => lout = LoadedColumns

\* A failed series between two that load: all three were fetched, the
\* table has the two loaded columns.
C28_Witness ==
    /\ lpc = "returned" /\ l_in.allow_partial
    /\ Len(l_in.series_map) = 3
    /\ l_in.series_map[2] \notin l_in.loads
    /\ Len(fetched) = 3
    /\ lout = <<ColumnOf(l_in.series_map[1]), ColumnOf(l_in.series_map[3])>>

====
